---- MODULE Spec2Model ----
(***************************************************************************)
(* Model of the user-management data layer: the reflection-driven          *)
(* AutoMigrate of PostgresRepo, the Postgres and MySQL repositories, and   *)
(* the UserService on top of them.                                         *)
(*                                                                         *)
(* Strings are sequences of tokens.  The characters the code looks at one  *)
(* by one (space, colon, comma, double quote) are always tokens of their   *)
(* own; a maximal run of other characters is one token.  Two Go strings    *)
(* are equal exactly when their token sequences are.  Type names, which    *)
(* strings.ToLower maps letter by letter, are sequences of letters.        *)
(***************************************************************************)
EXTENDS Integers, Sequences, FiniteSets, TLC

\* -------------------------------------------------------------- bounds
\* Longest field list of a generated entity descriptor.
MaxFields == 2
\* Most Create calls, and most GetAll calls, of one run.
MaxCalls == 2
\* Most AutoMigrate calls of one run, the constructor's included.
MaxMigrations == 2

\* ------------------------------------------------------------- strings
Q == "\""
SP == " "
COLON == ":"
COMMA == ","

\* A Go error: the chain of messages fmt.Errorf("...: %w", err) builds,
\* outermost first.  The nil error is the empty chain.
NilErr == <<>>
\* fmt.Errorf("msg")
Errorf(msg) == <<msg>>
\* fmt.Errorf("msg: %w", err)
Wrap(msg, err) == <<msg>> \o err
\* The error a driver call (Exec, Query, Scan, RowsAffected, Err) returns.
DriverErr == <<"driver error">>

\* strings.ToLower, on the letters of the type names used here.
LowerRune(c) ==
    CASE c = "U" -> "u"
      [] c = "G" -> "g"
      [] c = "N" -> "n"
      [] c = "T" -> "t"
      [] OTHER -> c

ToLower(s) == [i \in 1..Len(s) |-> LowerRune(s[i])]

\* strings.Split(s, ","): the pieces between the commas, empty pieces kept.
RECURSIVE Split(_)
Split(s) ==
    IF \A i \in 1..Len(s) : s[i] # COMMA
    THEN <<s>>
    ELSE LET k == CHOOSE i \in 1..Len(s) :
                      s[i] = COMMA /\ \A j \in 1..(i - 1) : s[j] # COMMA
         IN <<SubSeq(s, 1, k - 1)>> \o Split(SubSeq(s, k + 1, Len(s)))

\* strings.Join(elems, ", ")
RECURSIVE Join(_)
Join(elems) ==
    IF elems = <<>> THEN <<>>
    ELSE IF Len(elems) = 1 THEN elems[1]
    ELSE elems[1] \o <<COMMA, SP>> \o Join(Tail(elems))

\* ----------------------------------------------------- reflect.StructTag
\* Number of leading spaces of a tag.
RECURSIVE LeadingSpaces(_)
LeadingSpaces(tag) ==
    IF tag # <<>> /\ Head(tag) = SP THEN 1 + LeadingSpaces(Tail(tag)) ELSE 0

\* Length of the key at the head of a tag: the tokens before the first
\* space, colon or quote.
RECURSIVE KeyLen(_)
KeyLen(tag) ==
    IF tag # <<>> /\ Head(tag) \notin {SP, COLON, Q}
    THEN 1 + KeyLen(Tail(tag))
    ELSE 0

\* Position of the quote closing the quoted string that starts at q[1],
\* or 0 when it is not closed.
ClosingQuote(q) ==
    IF \E i \in 2..Len(q) : q[i] = Q
    THEN CHOOSE i \in 2..Len(q) : q[i] = Q /\ \A j \in 2..(i - 1) : q[j] # Q
    ELSE 0

\* StructTag.Get(key): the value of the first well-formed key:"value" pair
\* with this key; the empty string when there is none, or when the tag is
\* malformed before it.
RECURSIVE TagGet(_, _)
TagGet(tag, key) ==
    LET t == SubSeq(tag, LeadingSpaces(tag) + 1, Len(tag))
        i == KeyLen(t)
    IN IF t = <<>> THEN <<>>
       ELSE IF i = 0 \/ i + 2 > Len(t) \/ t[i + 1] # COLON \/ t[i + 2] # Q
       THEN <<>>
       ELSE LET name == SubSeq(t, 1, i)
                rest == SubSeq(t, i + 2, Len(t))
                j == ClosingQuote(rest)
            IN IF j = 0 THEN <<>>
               ELSE IF name = key THEN SubSeq(rest, 2, j - 1)
               ELSE TagGet(SubSeq(rest, j + 1, Len(rest)), key)

\* ------------------------------------------------------ entity descriptors
\* reflect.Kind of the field types and models used here.
SupportedKinds == {"Int", "Int64", "String"}
Kinds == SupportedKinds \cup {"Float64"}

\* The raw struct tags, as written between the back quotes.
TagUserID == <<"db", COLON, "id", COMMA, SP, "primary">>
TagUserName == <<"db", COLON, Q, "name", Q>>
TagIdPrimary == <<"db", COLON, Q, "id", COMMA, "primary", Q>>
TagIdSpacePrimary == <<"db", COLON, Q, "id", COMMA, SP, "primary", Q>>
TagNoColumn == <<"db", COLON, Q, COMMA, "primary", Q>>
TagJsonThenDb == <<"json", COLON, Q, "n", Q, SP, "db", COLON, Q, "name", Q>>
TagNone == <<>>

\* models.User
User ==
    [kind |-> "Struct", name |-> <<"U", "s", "e", "r">>,
     fields |-> << [name |-> "ID", type |-> "Int", tag |-> TagUserID],
                   [name |-> "Name", type |-> "String", tag |-> TagUserName] >>]

\* An entity with a well-formed primary-key tag and a field of a type the
\* translator does not support.
Gadget ==
    [kind |-> "Struct", name |-> <<"G", "a", "d", "g", "e", "t">>,
     fields |-> << [name |-> "ID", type |-> "Int", tag |-> TagIdPrimary],
                   [name |-> "Price", type |-> "Float64", tag |-> TagUserName] >>]

\* A model that is not a struct: AutoMigrate(42).
NotAStruct == [kind |-> "Int", name |-> <<"i", "n", "t">>, fields |-> <<>>]

\* The struct fields entity descriptors are generated from.
FieldPool ==
    [name : {"F"}, type : Kinds,
     tag : {TagUserID, TagUserName, TagIdPrimary, TagIdSpacePrimary,
            TagNoColumn, TagJsonThenDb, TagNone}]

\* Every struct of at most MaxFields fields named "Thing", with User, Gadget
\* and the non-struct model.
Descriptors ==
    {User, Gadget, NotAStruct} \cup
    UNION {{[kind |-> "Struct", name |-> <<"T", "h", "i", "n", "g">>, fields |-> fs] :
               fs \in [1..n -> FieldPool]} : n \in 0..MaxFields}

\* The models the callers of the running service pass to AutoMigrate.
ServiceModels == {User, Gadget, NotAStruct}

\* ------------------------------------------------------ schema translator
\* goTypeToPostgres: the storage type of a field type; panics on a type that
\* is neither an integer nor a string.
goTypeToPostgres(t) ==
    IF t \in {"Int", "Int64"} THEN [panic |-> FALSE, val |-> <<"BIGSERIAL">>]
    ELSE IF t = "String" THEN [panic |-> FALSE, val |-> <<"TEXT">>]
    ELSE [panic |-> TRUE, val |-> <<"unsupported type: ", t>>]

\* The column definition of one field with a non-empty db tag (the body of
\* AutoMigrate's loop after the tag test); called only for a supported type.
ColumnDef(f) ==
    LET parts == Split(TagGet(f.tag, <<"db">>))
        col == parts[1]
        def == col \o <<SP>> \o goTypeToPostgres(f.type).val
    IN IF Len(parts) > 1 /\ parts[2] = <<"primary">>
       THEN def \o <<SP, "PRIMARY", SP, "KEY">>
       ELSE def

\* AutoMigrate's loop over the fields from field i on, columns being the
\* definitions appended so far.  A panic of goTypeToPostgres ends it.
RECURSIVE ColumnLoop(_, _, _)
ColumnLoop(fields, i, columns) ==
    IF i > Len(fields) THEN [panic |-> FALSE, columns |-> columns]
    ELSE IF TagGet(fields[i].tag, <<"db">>) = <<>>
         THEN ColumnLoop(fields, i + 1, columns)
    ELSE IF goTypeToPostgres(fields[i].type).panic
         THEN [panic |-> TRUE, columns |-> columns]
    ELSE ColumnLoop(fields, i + 1, Append(columns, ColumnDef(fields[i])))

\* strings.ToLower(t.Name()) + "s"
TableName(model) == ToLower(model.name) \o <<"s">>

\* The statement AutoMigrate formats: the table and the joined columns of
\* CREATE TABLE IF NOT EXISTS <table> (<columns>);
CreateTableQuery(table, columns) ==
    [stmt |-> "CREATE TABLE IF NOT EXISTS", table |-> table, body |-> Join(columns)]

\* ----------------------------------------------------------------- backend
\* The table Create and GetAll name in their statements.
UsersTable == <<"u", "s", "e", "r", "s">>

\* What the backend answers to one call: no fault, or the fault of one driver
\* call (Exec, RowsAffected, Query, Scan of row `at`, the iteration ending in
\* an error after `at` rows).
NoFault == [fault |-> "none", at |-> 0]
ExecFault == [fault |-> "exec", at |-> 0]
RowsAffectedFault == [fault |-> "rowsAffected", at |-> 0]
QueryFault == [fault |-> "query", at |-> 0]
ScanFault(k) == [fault |-> "scan", at |-> k]
IterFault(k) == [fault |-> "iter", at |-> k]

\* A backend without tables.
EmptyDB == [tables |-> <<>>, rows |-> <<>>, nextId |-> 1]

\* A backend whose users table was provisioned by hand.
ProvisionedDB ==
    [tables |-> << [name |-> UsersTable,
                    cols |-> << [name |-> "id", type |-> "BIGSERIAL"],
                                [name |-> "name", type |-> "TEXT"] >>] >>,
     rows |-> <<>>, nextId |-> 1]

HasTable(d, table) == \E i \in 1..Len(d.tables) : d.tables[i].name = table

\* The columns of the (first) table of this name.
TableCols(d, table) ==
    d.tables[CHOOSE i \in 1..Len(d.tables) :
                 d.tables[i].name = table
                 /\ \A j \in 1..(i - 1) : d.tables[j].name # table].cols

HasColumn(d, table, col) ==
    HasTable(d, table)
    /\ \E i \in 1..Len(TableCols(d, table)) : TableCols(d, table)[i].name = col

ColumnType(d, table, col) ==
    LET cols == TableCols(d, table)
    IN cols[CHOOSE i \in 1..Len(cols) : cols[i].name = col].type

\* The backend's reading of one column definition of a CREATE TABLE body:
\* a column name, a space, a type name, then qualifiers.
TrimLeft(s) == SubSeq(s, LeadingSpaces(s) + 1, Len(s))

WellFormedColumn(piece) ==
    LET p == TrimLeft(piece)
    IN Len(p) >= 3 /\ p[1] \notin {SP, COLON, Q} /\ p[2] = SP
       /\ p[3] \in {"BIGSERIAL", "TEXT"}

ParseColumns(body) ==
    IF body = <<>> THEN <<>>
    ELSE LET pieces == Split(body)
         IN [i \in 1..Len(pieces) |->
                [name |-> TrimLeft(pieces[i])[1], type |-> TrimLeft(pieces[i])[3]]]

WellFormedBody(body) ==
    body = <<>> \/ \A i \in 1..Len(Split(body)) : WellFormedColumn(Split(body)[i])

\* db.Exec of the statement without IF NOT EXISTS: an existing table is an
\* error.
ExecCreateTable_NoIfNotExists(d, query, resp) ==
    IF resp.fault = "exec" THEN [err |-> DriverErr, db |-> d]
    ELSE IF ~WellFormedBody(query.body)
         THEN [err |-> <<"syntax error">>, db |-> d]
    ELSE IF HasTable(d, query.table)
         THEN [err |-> <<"relation already exists">>, db |-> d]
    ELSE [err |-> NilErr,
          db |-> [d EXCEPT !.tables =
                     Append(@, [name |-> query.table,
                                cols |-> ParseColumns(query.body)])]]

\* db.Exec of a CREATE TABLE IF NOT EXISTS statement: a syntax error when a
\* column definition is malformed, nothing when the table exists, and one new
\* table otherwise.
ExecCreateTableIfNotExists(d, query, resp) ==
    IF resp.fault = "exec" THEN [err |-> DriverErr, db |-> d]
    ELSE IF ~WellFormedBody(query.body)
         THEN [err |-> <<"syntax error">>, db |-> d]
    ELSE IF HasTable(d, query.table) THEN [err |-> NilErr, db |-> d]
    ELSE [err |-> NilErr,
          db |-> [d EXCEPT !.tables =
                     Append(@, [name |-> query.table,
                                cols |-> ParseColumns(query.body)])]]

\* db.Exec of INSERT INTO users (name) VALUES (<placeholder>): one new row,
\* its id taken from the sequence when the table has a serial id column.
ExecInsertUser(d, name, resp) ==
    IF resp.fault = "exec" THEN [err |-> DriverErr, db |-> d]
    ELSE IF ~HasColumn(d, UsersTable, "name")
         THEN [err |-> <<"relation or column does not exist">>, db |-> d]
    ELSE IF ColumnType(d, UsersTable, "name") # "TEXT"
         THEN [err |-> <<"invalid input syntax">>, db |-> d]
    ELSE IF HasColumn(d, UsersTable, "id")
         THEN [err |-> NilErr,
               db |-> [d EXCEPT !.rows = Append(@, [id |-> d.nextId, name |-> name]),
                                !.nextId = @ + 1]]
    ELSE [err |-> NilErr,
          db |-> [d EXCEPT !.rows = Append(@, [id |-> 0, name |-> name])]]

\* db.Query of SELECT id, name FROM users: the rows, or the error.
QuerySelectUsers(d, resp) ==
    IF resp.fault = "query" THEN [err |-> DriverErr, rows |-> <<>>]
    ELSE IF ~(HasColumn(d, UsersTable, "id") /\ HasColumn(d, UsersTable, "name"))
         THEN [err |-> <<"relation or column does not exist">>, rows |-> <<>>]
    ELSE [err |-> NilErr, rows |-> d.rows]

\* ------------------------------------------------------------ PostgresRepo
\* AutoMigrate(model) on the backend d: what it returns (err), whether it
\* panicked, the column definitions it built and the backend it leaves.
PostgresRepo_AutoMigrate(d, model, resp) ==
    LET Exec(columns) ==
            ExecCreateTableIfNotExists(
                d, CreateTableQuery(TableName(model), columns), resp)
        Done(columns, res) ==
            [panic |-> FALSE, err |-> res.err, columns |-> columns, db |-> res.db]
        Migrate(loop) ==
            IF loop.panic
            THEN [panic |-> TRUE, err |-> NilErr, columns |-> loop.columns, db |-> d]
            ELSE Done(loop.columns, Exec(loop.columns))
    IN IF model.kind # "Struct"
       THEN [panic |-> FALSE, err |-> Errorf("model must be a struct"),
             columns |-> <<>>, db |-> d]
       ELSE Migrate(ColumnLoop(model.fields, 1, <<>>))

\* PostgresRepo.Create
PostgresRepo_Create(d, user, resp) ==
    LET Return(res) ==
            IF res.err # NilErr
            THEN [err |-> Wrap("failed to insert user", res.err), db |-> res.db]
            ELSE IF resp.fault = "rowsAffected"
            THEN [err |-> Wrap("failed to get rows affected", DriverErr),
                  db |-> res.db]
            ELSE [err |-> NilErr, db |-> res.db]
    IN Return(ExecInsertUser(d, user.Name, resp))

\* The rows.Next loop of PostgresRepo.GetAll from row i on, users being the
\* records appended so far, and the rows.Err test after it.
RECURSIVE PostgresRepo_ScanRows(_, _, _, _)
PostgresRepo_ScanRows(rows, resp, i, users) ==
    IF resp.fault = "iter" /\ resp.at = i - 1
    THEN [users |-> <<>>, err |-> Wrap("error iterating rows", DriverErr)]
    ELSE IF i > Len(rows) THEN [users |-> users, err |-> NilErr]
    ELSE IF resp.fault = "scan" /\ resp.at = i
    THEN [users |-> <<>>, err |-> Wrap("failed to scan user", DriverErr)]
    ELSE PostgresRepo_ScanRows(rows, resp, i + 1,
             Append(users, [ID |-> rows[i].id, Name |-> rows[i].name]))

\* PostgresRepo.GetAll
PostgresRepo_GetAll(d, resp) ==
    LET Return(q) ==
            IF q.err # NilErr
            THEN [users |-> <<>>, err |-> Wrap("failed to query users", q.err)]
            ELSE PostgresRepo_ScanRows(q.rows, resp, 1, <<>>)
    IN Return(QuerySelectUsers(d, resp))

\* --------------------------------------------------------------- MySQLRepo
\* MySQLRepo.Create
MySQLRepo_Create(d, user, resp) ==
    LET Return(res) ==
            IF res.err # NilErr
            THEN [err |-> Wrap("failed to insert user", res.err), db |-> res.db]
            ELSE [err |-> NilErr, db |-> res.db]
    IN Return(ExecInsertUser(d, user.Name, resp))

\* The loop of MySQLRepo.GetAll without the rows.Err test after it: an
\* iteration that ends in an error returns the records read so far.
RECURSIVE MySQLRepo_ScanRows_NoErrCheck(_, _, _, _)
MySQLRepo_ScanRows_NoErrCheck(rows, resp, i, users) ==
    IF resp.fault = "iter" /\ resp.at = i - 1
    THEN [users |-> users, err |-> NilErr]
    ELSE IF i > Len(rows) THEN [users |-> users, err |-> NilErr]
    ELSE IF resp.fault = "scan" /\ resp.at = i
    THEN [users |-> <<>>, err |-> Wrap("failed to scan user", DriverErr)]
    ELSE MySQLRepo_ScanRows_NoErrCheck(rows, resp, i + 1,
             Append(users, [ID |-> rows[i].id, Name |-> rows[i].name]))

\* The rows.Next loop of MySQLRepo.GetAll and the rows.Err test after it.
RECURSIVE MySQLRepo_ScanRows(_, _, _, _)
MySQLRepo_ScanRows(rows, resp, i, users) ==
    IF resp.fault = "iter" /\ resp.at = i - 1
    THEN [users |-> <<>>, err |-> Wrap("error iterating rows", DriverErr)]
    ELSE IF i > Len(rows) THEN [users |-> users, err |-> NilErr]
    ELSE IF resp.fault = "scan" /\ resp.at = i
    THEN [users |-> <<>>, err |-> Wrap("failed to scan user", DriverErr)]
    ELSE MySQLRepo_ScanRows(rows, resp, i + 1,
             Append(users, [ID |-> rows[i].id, Name |-> rows[i].name]))

\* MySQLRepo.GetAll
MySQLRepo_GetAll(d, resp) ==
    LET Return(q) ==
            IF q.err # NilErr
            THEN [users |-> <<>>, err |-> Wrap("failed to query users", q.err)]
            ELSE MySQLRepo_ScanRows(q.rows, resp, 1, <<>>)
    IN Return(QuerySelectUsers(d, resp))

\* NewPostgresRepo with the error of AutoMigrate dropped: the handle is
\* returned whatever the migration did.
NewPostgresRepo_KeepsHandle(d, resp) ==
    LET Return(res) ==
            [handle |-> ~res.panic, err |-> NilErr, panicked |-> res.panic,
             migrateErr |-> res.err, columns |-> res.columns, db |-> res.db]
    IN Return(PostgresRepo_AutoMigrate(d, User, resp))

\* NewPostgresRepo(db): AutoMigrate(models.User{}), then (nil, err) or
\* (repo, nil); a panic of AutoMigrate leaves the caller with neither.
NewPostgresRepo_Call(d, resp) ==
    LET Return(res) ==
            IF res.panic
            THEN [handle |-> FALSE, err |-> NilErr, panicked |-> TRUE,
                  migrateErr |-> NilErr, columns |-> res.columns, db |-> res.db]
            ELSE IF res.err # NilErr
            THEN [handle |-> FALSE, err |-> res.err, panicked |-> FALSE,
                  migrateErr |-> res.err, columns |-> res.columns, db |-> res.db]
            ELSE [handle |-> TRUE, err |-> NilErr, panicked |-> FALSE,
                  migrateErr |-> NilErr, columns |-> res.columns, db |-> res.db]
    IN Return(PostgresRepo_AutoMigrate(d, User, resp))

\* ------------------------------------------------------------- UserService
\* The UserRepository the service holds: the calls go to the repository of
\* the configured backend.
Repo_Create(b, d, user, resp) ==
    IF b = "postgres" THEN PostgresRepo_Create(d, user, resp)
    ELSE MySQLRepo_Create(d, user, resp)

Repo_GetAll(b, d, resp) ==
    IF b = "postgres" THEN PostgresRepo_GetAll(d, resp)
    ELSE MySQLRepo_GetAll(d, resp)

\* RegisterUser without the test of the name.
UserService_RegisterUser_NoValidation(b, d, calls, name, resp) ==
    LET Return(res) ==
            IF res.err # NilErr
            THEN [err |-> Wrap("failed to register user", res.err),
                  db |-> res.db, calls |-> calls + 1]
            ELSE [err |-> NilErr, db |-> res.db, calls |-> calls + 1]
    IN Return(Repo_Create(b, d, [ID |-> 0, Name |-> name], resp))

\* UserService.RegisterUser on the backend d, calls being the Create calls
\* the repository has received: the error, the backend and the calls after it.
UserService_RegisterUser(b, d, calls, name, resp) ==
    LET Return(res) ==
            IF res.err # NilErr
            THEN [err |-> Wrap("failed to register user", res.err),
                  db |-> res.db, calls |-> calls + 1]
            ELSE [err |-> NilErr, db |-> res.db, calls |-> calls + 1]
    IN IF name = ""
       THEN [err |-> Errorf("user name cannot be empty"), db |-> d, calls |-> calls]
       ELSE Return(Repo_Create(b, d, [ID |-> 0, Name |-> name], resp))

\* UserService.ListUsers
UserService_ListUsers(b, d, resp) ==
    LET Return(res) ==
            IF res.err # NilErr
            THEN [users |-> <<>>, err |-> Wrap("failed to list users", res.err)]
            ELSE [users |-> res.users, err |-> NilErr]
    IN Return(Repo_GetAll(b, d, resp))

\* ------------------------------------------------------------------- state
VARIABLES
    backend,      \* the backend main is wired to: "postgres" or "mysql"
    model,        \* the model callers pass to AutoMigrate
    db,           \* the backend's tables, rows and id sequence
    repo,         \* what the repository's constructor returned
    migrateCalls, \* AutoMigrate calls made, the constructor's included
    createCalls,  \* Create calls the repository has received
    getAllCalls,  \* GetAll calls the repository has received
    last          \* the last call and what it returned

vars == <<backend, model, db, repo, migrateCalls, createCalls, getAllCalls, last>>

Names == {"", "Alice", "Bob"}

\* The record of one call.
Ret(op, arg, resp, panic, err, users, columns) ==
    [op |-> op, arg |-> arg, resp |-> resp, panic |-> panic, err |-> err,
     users |-> users, columns |-> columns]

NoCall == Ret("none", "", NoFault, FALSE, NilErr, <<>>, <<>>)

\* The constructor has not been called.  Afterwards: whether the caller got a
\* handle, the error it got, whether the constructor panicked, how often it
\* ran AutoMigrate and with what error, and whether that created the table.
NoRepo ==
    [called |-> FALSE, handle |-> FALSE, err |-> NilErr, panicked |-> FALSE,
     migrations |-> 0, migrateErr |-> NilErr, createdTable |-> FALSE]

\* An unrecovered panic ends the process.
Running == ~last.panic

\* The faults the backend can answer a GetAll with, given its rows.
GetAllResponses ==
    {NoFault, QueryFault}
    \cup {ScanFault(k) : k \in 1..Len(db.rows)}
    \cup {IterFault(k) : k \in 0..Len(db.rows)}

\* MySQLRepo has no AutoMigrate: no caller passes it a model.
Init ==
    /\ backend \in {"postgres", "mysql"}
    /\ model \in IF backend = "postgres" THEN ServiceModels ELSE {User}
    /\ db \in {EmptyDB, ProvisionedDB}
    /\ repo = NoRepo
    /\ migrateCalls = 0
    /\ createCalls = 0
    /\ getAllCalls = 0
    /\ last = NoCall

\* ----------------------------------------------------------------- actions
\* repository.NewPostgresRepo(db)
NewPostgresRepo(resp) ==
    /\ Running /\ backend = "postgres" /\ ~repo.called
    /\ LET Return(res) ==
               /\ db' = res.db
               /\ repo' = [called |-> TRUE, handle |-> res.handle, err |-> res.err,
                           panicked |-> res.panicked, migrations |-> 1,
                           migrateErr |-> res.migrateErr,
                           createdTable |-> res.db # db]
               /\ last' = Ret("NewPostgresRepo", "", resp, res.panicked, res.err,
                              <<>>, res.columns)
       IN Return(NewPostgresRepo_Call(db, resp))
    /\ migrateCalls' = migrateCalls + 1
    /\ UNCHANGED <<backend, model, createCalls, getAllCalls>>

\* repository.NewMySQLRepo(db): the handle, nothing else.
NewMySQLRepo ==
    /\ Running /\ backend = "mysql" /\ ~repo.called
    /\ repo' = [NoRepo EXCEPT !.called = TRUE, !.handle = TRUE]
    /\ last' = Ret("NewMySQLRepo", "", NoFault, FALSE, NilErr, <<>>, <<>>)
    /\ UNCHANGED <<backend, model, db, migrateCalls, createCalls, getAllCalls>>

\* A caller holding the PostgresRepo calls its exported AutoMigrate(model).
AutoMigrate(resp) ==
    /\ Running /\ backend = "postgres" /\ repo.handle
    /\ migrateCalls < MaxMigrations
    /\ LET Return(res) ==
               /\ db' = res.db
               /\ last' = Ret("AutoMigrate", "", resp, res.panic, res.err,
                              <<>>, res.columns)
       IN Return(PostgresRepo_AutoMigrate(db, model, resp))
    /\ migrateCalls' = migrateCalls + 1
    /\ UNCHANGED <<backend, model, repo, createCalls, getAllCalls>>

\* repo.Create(models.User{Name: name})
Create(name, resp) ==
    /\ Running /\ repo.handle /\ createCalls < MaxCalls
    /\ LET Return(res) ==
               /\ db' = res.db
               /\ last' = Ret("Create", name, resp, FALSE, res.err, <<>>, <<>>)
       IN Return(Repo_Create(backend, db, [ID |-> 0, Name |-> name], resp))
    /\ createCalls' = createCalls + 1
    /\ UNCHANGED <<backend, model, repo, migrateCalls, getAllCalls>>

\* repo.GetAll()
GetAll(resp) ==
    /\ Running /\ repo.handle /\ getAllCalls < MaxCalls
    /\ LET Return(res) ==
               last' = Ret("GetAll", "", resp, FALSE, res.err, res.users, <<>>)
       IN Return(Repo_GetAll(backend, db, resp))
    /\ getAllCalls' = getAllCalls + 1
    /\ UNCHANGED <<backend, model, db, repo, migrateCalls, createCalls>>

\* userService.RegisterUser(name)
RegisterUser(name, resp) ==
    /\ Running /\ repo.handle /\ createCalls < MaxCalls
    /\ LET Return(res) ==
               /\ db' = res.db
               /\ createCalls' = res.calls
               /\ last' = Ret("RegisterUser", name, resp, FALSE, res.err,
                              <<>>, <<>>)
       IN Return(UserService_RegisterUser(backend, db, createCalls, name, resp))
    /\ UNCHANGED <<backend, model, repo, migrateCalls, getAllCalls>>

\* userService.ListUsers()
ListUsers(resp) ==
    /\ Running /\ repo.handle /\ getAllCalls < MaxCalls
    /\ LET Return(res) ==
               last' = Ret("ListUsers", "", resp, FALSE, res.err, res.users, <<>>)
       IN Return(UserService_ListUsers(backend, db, resp))
    /\ getAllCalls' = getAllCalls + 1
    /\ UNCHANGED <<backend, model, db, repo, migrateCalls, createCalls>>

Next ==
    \/ \E resp \in {NoFault, ExecFault} : NewPostgresRepo(resp)
    \/ NewMySQLRepo
    \/ \E resp \in {NoFault, ExecFault} : AutoMigrate(resp)
    \/ \E name \in Names, resp \in {NoFault, ExecFault, RowsAffectedFault} :
           Create(name, resp)
    \/ \E resp \in GetAllResponses : GetAll(resp)
    \/ \E name \in Names, resp \in {NoFault, ExecFault, RowsAffectedFault} :
           RegisterUser(name, resp)
    \/ \E resp \in GetAllResponses : ListUsers(resp)

Spec == Init /\ [][Next]_vars

\* The schema translator alone: the PostgresRepo and its AutoMigrate over every
\* generated entity descriptor.
InitSchema ==
    /\ backend = "postgres"
    /\ model \in Descriptors
    /\ db \in {EmptyDB, ProvisionedDB}
    /\ repo = NoRepo
    /\ migrateCalls = 0
    /\ createCalls = 0
    /\ getAllCalls = 0
    /\ last = NoCall

NextSchema ==
    \/ \E resp \in {NoFault, ExecFault} : NewPostgresRepo(resp)
    \/ \E resp \in {NoFault, ExecFault} : AutoMigrate(resp)

SpecSchema == InitSchema /\ [][NextSchema]_vars

\* ------------------------------------------------------------- properties
\* C1: schema derivation on models.User yields exactly two column definitions,
\* id first and name second, the id column BIGSERIAL with PRIMARY KEY.
C1_UserSchemaHasIdAndName ==
    (last.op = "NewPostgresRepo" /\ ~last.panic) =>
        /\ Len(last.columns) = 2
        /\ last.columns[1] = <<"id", SP, "BIGSERIAL", SP, "PRIMARY", SP, "KEY">>
        /\ SubSeq(last.columns[2], 1, 1) = <<"name">>

\* C2: for every backend, the constructor runs schema application exactly
\* once, and no Create or GetAll reaches a repository before a schema
\* application that succeeded.
C2_MigratedOnceBeforeUse ==
    /\ repo.handle => (repo.migrations = 1 /\ repo.migrateErr = NilErr)
    /\ (createCalls + getAllCalls > 0) =>
           (repo.migrations = 1 /\ repo.migrateErr = NilErr)

\* C3: when schema application fails during construction, the constructor
\* returns an error and no handle; it never ends with neither a handle nor an
\* error, and no call is served by a repository whose migration failed.
C3_FailedMigrationNoHandle ==
    /\ repo.called =>
           /\ repo.migrateErr # NilErr => (~repo.handle /\ repo.err # NilErr)
           /\ repo.handle \/ repo.err # NilErr
    /\ last.op \in {"Create", "GetAll", "RegisterUser", "ListUsers", "AutoMigrate"}
           => (repo.handle /\ repo.migrateErr = NilErr)

\* C3 happens: the constructor's migration failed and it returned that error.
C3_Witness ==
    /\ backend = "postgres" /\ repo.called
    /\ repo.migrateErr # NilErr /\ ~repo.handle /\ repo.err = repo.migrateErr

\* C4: goTypeToPostgres returns a fixed token for every supported type
\* (integer: BIGSERIAL, string: TEXT) and, for an unsupported type, fails with
\* a returned error instead of panicking.
C4_UnsupportedTypeReturnsError ==
    (last.op = "AutoMigrate" /\ model.kind = "Struct") =>
        \A i \in 1..Len(model.fields) :
            TagGet(model.fields[i].tag, <<"db">>) # <<>> =>
                LET t == model.fields[i].type
                IN /\ t \in {"Int", "Int64"} =>
                          goTypeToPostgres(t) = [panic |-> FALSE, val |-> <<"BIGSERIAL">>]
                   /\ t = "String" =>
                          goTypeToPostgres(t) = [panic |-> FALSE, val |-> <<"TEXT">>]
                   /\ t \notin SupportedKinds =>
                          /\ ~goTypeToPostgres(t).panic
                          /\ ~last.panic
                          /\ last.err # NilErr

\* C5: RegisterUser("") returns the validation error and performs no storage
\* operation: the Create and GetAll call counts and the backend are unchanged,
\* in any state.
C5_EmptyNameNoStorage ==
    [][(last'.op = "RegisterUser" /\ last'.arg = "") =>
           /\ last'.err = <<"user name cannot be empty">>
           /\ UNCHANGED <<db, createCalls, getAllCalls>>]_vars

\* C5 happens: RegisterUser("") was refused after a user had been stored.
C5_Witness ==
    /\ last.op = "RegisterUser" /\ last.arg = ""
    /\ last.err = <<"user name cannot be empty">>
    /\ createCalls = 1 /\ Len(db.rows) = 1

\* C6: on a repository whose own schema application created the table, a
\* successful RegisterUser("Alice") followed by ListUsers returns, without
\* error, exactly one record, named Alice, with a non-zero identifier.
C6_RegisterThenList ==
    [][(/\ repo.createdTable
        /\ last.op = "RegisterUser" /\ last.arg = "Alice" /\ last.err = NilErr
        /\ createCalls = 1 /\ getAllCalls = 0
        /\ last'.op = "ListUsers" /\ last'.resp = NoFault) =>
           /\ last'.err = NilErr
           /\ Len(last'.users) = 1
           /\ last'.users[1].Name = "Alice"
           /\ last'.users[1].ID # 0]_vars

\* No two tables of the backend have the same name.
NoDuplicateTables(d) ==
    \A i, j \in 1..Len(d.tables) : d.tables[i].name = d.tables[j].name => i = j

C9_BackendsBehaveAlike ==
    [][/\ (last'.op = "Create" /\ createCalls' = createCalls + 1) =>
              LET Alike(pg, my) ==
                      /\ (pg.err = NilErr) = (my.err = NilErr)
                      /\ pg.db = my.db
              IN Alike(PostgresRepo_Create(db, [ID |-> 0, Name |-> last'.arg], last'.resp),
                       MySQLRepo_Create(db, [ID |-> 0, Name |-> last'.arg], last'.resp))
       /\ (last'.op = "GetAll" /\ getAllCalls' = getAllCalls + 1) =>
              PostgresRepo_GetAll(db, last'.resp) = MySQLRepo_GetAll(db, last'.resp)]_vars

\* The storage column name a field declares: the db tag up to its first comma.
DeclaredColumn(f) == Split(TagGet(f.tag, <<"db">>))[1]

\* The field's db tag lists primary after the column name.
MarkedPrimary(f) ==
    LET Has(parts) == \E i \in 2..Len(parts) : parts[i] = <<"primary">>
    IN Has(Split(TagGet(f.tag, <<"db">>)))

\* One definition per field that declares a column name, in field order.
RECURSIVE ExpectedColumns(_)
ExpectedColumns(fields) ==
    IF fields = <<>> THEN <<>>
    ELSE IF DeclaredColumn(Head(fields)) = <<>>
    THEN ExpectedColumns(Tail(fields))
    ELSE << DeclaredColumn(Head(fields)) \o <<SP>>
            \o goTypeToPostgres(Head(fields).type).val
            \o (IF MarkedPrimary(Head(fields))
                THEN <<SP, "PRIMARY", SP, "KEY">> ELSE <<>>) >>
         \o ExpectedColumns(Tail(fields))

\* C10: for every struct, the column list AutoMigrate builds has one definition
\* per field whose column name is not empty, in field order, the other fields
\* skipped; each is the column name, then the storage type, then PRIMARY KEY
\* exactly when the field's tag marks it primary.
C10_OneColumnPerNamedField ==
    (last.op = "AutoMigrate" /\ model.kind = "Struct" /\ ~last.panic) =>
        last.columns = ExpectedColumns(model.fields)

====
